---- MODULE Spec2Model ----
(***************************************************************************)
(* Model of fooocusapi/utils/file_utils.py: the output-artifact manager.   *)
(* Strings are sequences of one-character strings, so that split, join,    *)
(* lower and upper are computed as Python computes them.  The state is the *)
(* local regular files, the remote bucket, the clock, the loaded settings  *)
(* and the last call with what it returned to its caller.  Directories are *)
(* not tracked: makedirs(exist_ok=True) is idempotent and no function of   *)
(* the module is handed a directory path.                                  *)
(***************************************************************************)
EXTENDS Naturals, Sequences, FiniteSets, TLC

VARIABLES
    today,           \* datetime.now(), as a day number
    files,           \* local regular files: path -> content
    remote,          \* the bucket: key -> content
    infra_settings,  \* configs/config.py: loaded once at import
    faults,          \* copies that have failed part-way so far
    last,            \* the last call: its arguments, the day, what it returned
    held             \* the caller's handle: the path the last successful save returned

vars == <<today, files, remote, infra_settings, faults, last, held>>

----------------------------------------------------------------------------
(* Bounds *)

\* The clock runs over days 1..MaxDay.
MaxDay == 2

\* At most MaxFaults copies fail part-way.
MaxFaults == 1

----------------------------------------------------------------------------
(* Strings *)

Digit == <<"1", "2", "3", "4", "5", "6", "7", "8", "9">>

NoneStr == <<"N", "o", "n", "e">>

\* Python's None, as an argument or a returned value.
None == <<"<None>">>

UpperOf ==
    ("p" :> "P") @@ ("n" :> "N") @@ ("g" :> "G") @@ ("j" :> "J")
    @@ ("e" :> "E") @@ ("w" :> "W") @@ ("b" :> "B") @@ ("i" :> "I")
    @@ ("f" :> "F")

LowerOf ==
    ("P" :> "p") @@ ("N" :> "n") @@ ("G" :> "g") @@ ("J" :> "j")
    @@ ("E" :> "e") @@ ("W" :> "w") @@ ("B" :> "b") @@ ("I" :> "i")
    @@ ("F" :> "f")

Upper(s) == [i \in 1..Len(s) |-> IF s[i] \in DOMAIN UpperOf THEN UpperOf[s[i]] ELSE s[i]]

Lower(s) == [i \in 1..Len(s) |-> IF s[i] \in DOMAIN LowerOf THEN LowerOf[s[i]] ELSE s[i]]

MinOf(S) == CHOOSE x \in S : \A y \in S : x <= y

\* str.split(sep)
RECURSIVE Split(_, _)
Split(s, sep) ==
    LET idx == {i \in 1..Len(s) : s[i] = sep}
    IN  IF idx = {} THEN <<s>>
        ELSE LET i == MinOf(idx)
             IN  <<SubSeq(s, 1, i - 1)>> \o Split(SubSeq(s, i + 1, Len(s)), sep)

\* sep.join(parts)
RECURSIVE JoinWith(_, _)
JoinWith(parts, sep) ==
    IF Len(parts) = 0 THEN <<>>
    ELSE IF Len(parts) = 1 THEN parts[1]
    ELSE parts[1] \o <<sep>> \o JoinWith(Tail(parts), sep)

\* parts[-n:]
LastN(parts, n) ==
    IF Len(parts) <= n THEN parts ELSE SubSeq(parts, Len(parts) - n + 1, Len(parts))

\* os.path.join(a, b) on POSIX
PathJoin(a, b) ==
    IF Len(b) > 0 /\ b[1] = "/" THEN b
    ELSE IF Len(a) = 0 \/ a[Len(a)] = "/" THEN a \o b
    ELSE a \o <<"/">> \o b

\* Path(p).as_posix(): empty and "." segments are dropped
AsPosix(p) ==
    LET parts == Split(p, "/")
        keep  == SelectSeq(parts, LAMBDA x : x /= <<>> /\ x /= <<".">>)
        body  == JoinWith(keep, "/")
    IN  IF Len(p) > 0 /\ p[1] = "/" THEN <<"/">> \o body
        ELSE IF body = <<>> THEN <<".">> ELSE body

\* strftime("%Y-%m-%d")
DateString(d) == <<"2", "0", "2", "4", "-", "0", "3", "-", "2", Digit[d]>>

----------------------------------------------------------------------------
(* Module constants *)

output_dir == <<"/", "a", "p", "p", "/", "o", "u", "t", "p", "u", "t", "s",
                "/", "f", "i", "l", "e", "s">>

STATIC_SERVER_BASE ==
    <<"h", "t", "t", "p", ":", "/", "/", "1", "2", "7", ".", "0", ".", "0", ".", "1",
      ":", "8", "8", "8", "8", "/", "f", "i", "l", "e", "s", "/">>


\* 'data:image/' and ';base64,' of the data URI
DataImage == <<"d", "a", "t", "a", ":", "i", "m", "a", "g", "e", "/">>

Base64Mark == <<";", "b", "a", "s", "e", "6", "4", ",">>

png == <<"p", "n", "g">>

jpg == <<"j", "p", "g">>

jpeg == <<"j", "p", "e", "g">>

webp == <<"w", "e", "b", "p">>

\* The extensions output_file_to_base64img keeps.
KnownExts == {png, jpg, webp, jpeg}

\* The format names Image.save has an encoder for.
EncoderFormats == {Upper(png), Upper(jpeg), Upper(webp)}

----------------------------------------------------------------------------
(* Inputs *)

Names == {<<"r", "1">>}

Exts == {png, jpg, <<"g", "i", "f">>}

\* The temporary file the generation pipeline has written.
TmpPath == <<"/", "t", "m", "p", "/", "t", ".", "p", "n", "g">>

\* img: np.ndarray | str
Imgs == {[kind |-> "ndarray", val |-> <<>>], [kind |-> "str", val |-> TmpPath]}

\* date-partitioned name of an artifact
RelPath(d, n, e) == PathJoin(DateString(d), n \o <<".">> \o e)

\* The date-partitioned form of a path: its last two segments.
RelativeForm(p) == JoinWith(LastN(Split(p, "/"), 2), "/")

\* The paths the caller passes for its artifact: as returned, or date-relative.
HeldPaths == IF held = None THEN {} ELSE {held, RelativeForm(held)}

\* Another root a path may be prefixed with.
OtherRoot == <<"/", "s", "r", "v">>

----------------------------------------------------------------------------
(* Values returned to the caller *)

RetStr(s) == [kind |-> "str", val |-> s]

RetBytes(s) == [kind |-> "bytes", val |-> s]

RetNone == [kind |-> "none", val |-> <<>>]

RetBool(b) == [kind |-> IF b THEN "true" ELSE "false", val |-> <<>>]

Raise(e) == [kind |-> "raise", val |-> <<e>>]

\* The encoder's output for pixels px in format fmt.
Encoded(fmt, px) == fmt \o <<"#", Digit[px]>>

Call(op, filename, img, name, ext, existed, ret) ==
    [op |-> op, filename |-> filename, img |-> img, name |-> name, ext |-> ext,
     day |-> today, existed |-> existed, ret |-> ret]

\* f with path p removed
Without(f, p) == [q \in DOMAIN f \ {p} |-> f[q]]

\* f with p bound to c
With(f, p, c) == [q \in DOMAIN f \cup {p} |-> IF q = p THEN c ELSE f[q]]

----------------------------------------------------------------------------
(* Initial state: the module has been imported *)

Init ==
    /\ today = 1
    /\ files = [p \in {TmpPath} |-> [px |-> 1, whole |-> TRUE]]
    /\ remote = <<>>
    /\ infra_settings \in
           { [URL_S3 |-> <<"h", "t", "t", "p", ":", "/", "/", "s", "3">>, keys |-> TRUE],
             [URL_S3 |-> NoneStr, keys |-> FALSE] }
    /\ faults = 0
    /\ last = Call("import", None, "-", <<>>, <<>>, FALSE, RetNone)
    /\ held = None

\* The calendar day changes between calls.
Tick ==
    /\ today < MaxDay
    /\ today' = today + 1
    /\ UNCHANGED <<files, remote, infra_settings, faults, last, held>>

----------------------------------------------------------------------------
(* save_output_file *)

save_output_file(img, image_name, extension, fault) ==
    LET date_string == DateString(today)
        filename    == PathJoin(date_string, image_name \o <<".">> \o extension)
        file_path   == PathJoin(output_dir, filename)
        done(ret)   ==
            /\ last' = Call("save", filename, img.kind, image_name, extension, FALSE, ret)
            /\ held' = IF ret.kind = "str" THEN ret.val ELSE held
    IN  /\ UNCHANGED <<today, remote, infra_settings>>
        /\ faults' = IF fault = "copy" THEN faults + 1 ELSE faults
        /\ IF fault = "makedirs"
           THEN \* os.makedirs raises before the try block
                /\ done(Raise("OSError"))
                /\ files' = files
           ELSE /\ IF img.kind = "str"
                   THEN IF img.val \notin DOMAIN files
                        THEN \* shutil.move: the source is missing
                             /\ fault = "none"
                             /\ files' = files
                             /\ done(Raise("Exception"))
                        ELSE IF fault = "copy"
                        THEN \* shutil.move falls back to copy, which stops part-way
                             /\ faults < MaxFaults
                             /\ files' = With(files, file_path,
                                              [px |-> files[img.val].px, whole |-> FALSE])
                             /\ done(Raise("Exception"))
                        ELSE /\ files' = With(Without(files, img.val), file_path, files[img.val])
                             /\ done(RetStr(AsPosix(file_path)))
                   ELSE \* an ndarray: nothing is written
                        /\ fault = "none"
                        /\ files' = files
                        /\ done(RetStr(AsPosix(file_path)))

----------------------------------------------------------------------------
(* delete_output_file *)

\* Mutant: the remote copy is deleted with the local one.
delete_output_file_and_remote(filename) ==
    LET file_path == PathJoin(output_dir, filename)
        parts     == Split(filename, "/")
        gone      == {k \in DOMAIN remote : Split(k, "/")[2] = parts[Len(parts)]}
    IN  /\ IF file_path \in DOMAIN files
           THEN /\ files' = Without(files, file_path)
                /\ remote' = [k \in DOMAIN remote \ gone |-> remote[k]]
                /\ last' = Call("delete", filename, "-", <<>>, <<>>, FALSE, RetBool(TRUE))
           ELSE /\ files' = files
                /\ remote' = remote
                /\ last' = Call("delete", filename, "-", <<>>, <<>>, FALSE, RetBool(FALSE))
        /\ UNCHANGED <<today, infra_settings, faults, held>>

delete_output_file(filename) ==
    LET file_path == PathJoin(output_dir, filename)
    IN  /\ IF file_path \in DOMAIN files
           THEN /\ files' = Without(files, file_path)
                /\ last' = Call("delete", filename, "-", <<>>, <<>>, FALSE, RetBool(TRUE))
           ELSE \* os.remove raises OSError: no such file, or a directory
                /\ files' = files
                /\ last' = Call("delete", filename, "-", <<>>, <<>>, FALSE, RetBool(FALSE))
        /\ UNCHANGED <<today, remote, infra_settings, faults, held>>

----------------------------------------------------------------------------
(* upload_to_minio *)

\* Mutant: the key keeps the whole filename instead of its base name.
UploadS3Key_FullName(filename, day) == DateString(day) \o <<"/">> \o filename

UploadS3Key(filename, day) ==
    LET current_date == DateString(day)
        parts        == Split(filename, "/")
        base_name    == parts[Len(parts)]
    IN  current_date \o <<"/">> \o base_name

\* Mutant: the local copy is removed once it has been uploaded.
UploadOutcome_Move(filename, fault) ==
    LET s3_key    == UploadS3Key(filename, today)
        file_path == PathJoin(output_dir, filename)
    IN  IF ~infra_settings.keys
        THEN [bucket |-> remote, local |-> files, ret |-> Raise("NoCredentialsError")]
        ELSE IF file_path \notin DOMAIN files
        THEN [bucket |-> remote, local |-> files, ret |-> Raise("FileNotFoundError")]
        ELSE IF fault = "client"
        THEN [bucket |-> remote, local |-> files, ret |-> Raise("ClientError")]
        ELSE [bucket |-> With(remote, s3_key, files[file_path]),
              local  |-> Without(files, file_path),
              ret    |-> RetStr(infra_settings.URL_S3 \o <<"/">> \o s3_key)]

\* What the call does to the bucket and to the local files, and what it gives
\* the caller: upload_file only reads the local file.
UploadOutcome(filename, fault) ==
    LET s3_key    == UploadS3Key(filename, today)
        file_path == PathJoin(output_dir, filename)
    IN  IF ~infra_settings.keys
        THEN [bucket |-> remote, local |-> files, ret |-> Raise("NoCredentialsError")]
        ELSE IF file_path \notin DOMAIN files
        THEN [bucket |-> remote, local |-> files, ret |-> Raise("FileNotFoundError")]
        ELSE IF fault = "client"
        THEN [bucket |-> remote, local |-> files, ret |-> Raise("ClientError")]
        ELSE [bucket |-> With(remote, s3_key, files[file_path]),
              local  |-> files,
              ret    |-> RetStr(infra_settings.URL_S3 \o <<"/">> \o s3_key)]

upload_to_minio(filename, fault) ==
    LET out == UploadOutcome(filename, fault)
    IN  /\ fault /= "none" =>
               infra_settings.keys /\ PathJoin(output_dir, filename) \in DOMAIN files
        /\ remote' = out.bucket
        /\ files' = out.local
        /\ last' = Call("upload", filename, "-", <<>>, <<>>,
                        UploadS3Key(filename, today) \in DOMAIN remote, out.ret)
        /\ UNCHANGED <<today, infra_settings, faults, held>>

----------------------------------------------------------------------------
(* read-back *)

output_file_to_base64img(filename) ==
    IF filename = None THEN RetNone
    ELSE LET file_path == PathJoin(output_dir, filename)
         IN  IF file_path \notin DOMAIN files THEN RetNone
             ELSE LET parts == Split(filename, ".")
                      ext0  == parts[Len(parts)]
                      ext   == IF Lower(ext0) \notin KnownExts THEN png ELSE ext0
                  IN  IF ~files[file_path].whole
                      THEN Raise("UnidentifiedImageError")
                      ELSE IF Upper(ext) \notin EncoderFormats
                      THEN Raise("KeyError")
                      ELSE RetStr(DataImage \o ext \o Base64Mark
                                  \o Encoded(Upper(ext), files[file_path].px))

output_file_to_bytesimg(filename) ==
    IF filename = None THEN RetNone
    ELSE LET file_path == PathJoin(output_dir, filename)
         IN  IF file_path \notin DOMAIN files THEN RetNone
             ELSE IF ~files[file_path].whole
             THEN Raise("UnidentifiedImageError")
             ELSE RetBytes(Encoded(Upper(png), files[file_path].px))

\* Mutant: the whole filename is appended to the base URL.
get_file_serve_url_whole(filename) ==
    IF filename = None THEN RetNone ELSE RetStr(STATIC_SERVER_BASE \o filename)

get_file_serve_url(filename) ==
    IF filename = None THEN RetNone
    ELSE RetStr(STATIC_SERVER_BASE \o JoinWith(LastN(Split(filename, "/"), 2), "/"))

\* Mutant: the key takes the date segment of the filename, not today's date.
LookupS3Key_PathDate(filename, day) ==
    LET parts == Split(filename, "/")
    IN  JoinWith(LastN(parts, 2), "/")

LookupS3Key(filename, day) ==
    LET current_date == DateString(day)
        parts        == Split(filename, "/")
        base_name    == parts[Len(parts)]
    IN  current_date \o <<"/">> \o base_name

get_file_s3_url(filename) ==
    IF filename = None THEN RetNone
    ELSE RetStr(infra_settings.URL_S3 \o <<"/">> \o LookupS3Key(filename, today))

ToBase64(filename) ==
    /\ last' = Call("base64", filename, "-", <<>>, <<>>, FALSE, output_file_to_base64img(filename))
    /\ UNCHANGED <<today, files, remote, infra_settings, faults, held>>

ToBytes(filename) ==
    /\ last' = Call("bytes", filename, "-", <<>>, <<>>, FALSE, output_file_to_bytesimg(filename))
    /\ UNCHANGED <<today, files, remote, infra_settings, faults, held>>

LocalServeURL(filename) ==
    /\ last' = Call("serve_url", filename, "-", <<>>, <<>>, FALSE, get_file_serve_url(filename))
    /\ UNCHANGED <<today, files, remote, infra_settings, faults, held>>

RemoteURL(filename) ==
    /\ last' = Call("s3_url", filename, "-", <<>>, <<>>, FALSE, get_file_s3_url(filename))
    /\ UNCHANGED <<today, files, remote, infra_settings, faults, held>>

----------------------------------------------------------------------------

Save == \E img \in Imgs, n \in Names, e \in Exts, f \in {"none", "makedirs", "copy"} :
            save_output_file(img, n, e, f)

Delete == \E p \in HeldPaths : delete_output_file(p)

Upload == \E p \in HeldPaths, f \in {"none", "client"} : upload_to_minio(p, f)

ReadBase64 == \E p \in HeldPaths \cup {None} : ToBase64(p)

ReadBytes == \E p \in HeldPaths \cup {None} : ToBytes(p)

ServeURL ==
    \E p \in HeldPaths \cup {PathJoin(OtherRoot, r) : r \in HeldPaths} \cup {None} :
        LocalServeURL(p)

S3URL == \E p \in HeldPaths \cup {None} : RemoteURL(p)

Next == Tick \/ Save \/ Delete \/ Upload \/ ReadBase64 \/ ReadBytes \/ ServeURL \/ S3URL

Spec == Init /\ [][Next]_vars

\* The same program on a disk whose operations do not fail.
SaveOnReliableDisk == \E img \in Imgs, n \in Names, e \in Exts : save_output_file(img, n, e, "none")

NextReliableDisk ==
    Tick \/ SaveOnReliableDisk \/ Delete \/ Upload \/ ReadBase64 \/ ReadBytes \/ ServeURL \/ S3URL

SpecReliableDisk == Init /\ [][NextReliableDisk]_vars

----------------------------------------------------------------------------
(* Properties *)

\* The local path the last call was about.
LastPath == PathJoin(output_dir, last.filename)

SavedOk == last.op = "save" /\ last.ret.kind = "str"

UploadedOk == last.op = "upload" /\ last.ret.kind = "str"

\* C1: after a successful Persist, with either input variant, the file lies
\* at the target path, and ToBytes and ToBase64 on the returned path do not
\* return nil.
C1_PersistThenReadable ==
    SavedOk =>
        /\ LastPath \in DOMAIN files
        /\ output_file_to_bytesimg(last.ret.val).kind /= "none"
        /\ output_file_to_base64img(last.ret.val).kind /= "none"

\* C2: the value Persist returns is the date-relative path
\* <date>/<base name>.<ext>, without the output root.
C2_ReturnsRelativePath ==
    SavedOk => last.ret.val = RelPath(last.day, last.name, last.ext)

\* After a Delete, ToBytes and ToBase64 on its path return nil.
ReadsNilAfterDelete ==
    last.op = "delete" =>
        /\ output_file_to_bytesimg(last.filename) = RetNone
        /\ output_file_to_base64img(last.filename) = RetNone

\* C3: on a path a successful Persist returned, the first Delete returns
\* true; after a Delete, ToBytes and ToBase64 on the path return nil; and a
\* second Delete returns false.
C3_DeleteThenGone ==
    [][ /\ (SavedOk /\ last'.op = "delete" /\ last'.filename = last.ret.val)
            => last'.ret.kind = "true"
        /\ ReadsNilAfterDelete'
        /\ (last.op = "delete" /\ last'.op = "delete" /\ last'.filename = last.filename)
            => last'.ret.kind = "false"
      ]_vars

\* C4: after a successful PublishToRemote, RemoteURL for the same path
\* returns the same URL on the same day; on a later day its key differs from
\* the key of the upload, and the uploaded object is still what was uploaded.
C4_RemoteUrlAgreesSameDay ==
    UploadedOk =>
        LET key == UploadS3Key(last.filename, last.day)
        IN  /\ today = last.day => get_file_s3_url(last.filename) = last.ret
            /\ today /= last.day =>
                  /\ LookupS3Key(last.filename, today) /= key
                  /\ get_file_s3_url(last.filename) /= last.ret
                  /\ key \in DOMAIN remote
                  /\ remote[key] = files[LastPath]

\* C4 witness: a path was uploaded and the day has changed since.
C4_Witness == UploadedOk /\ today /= last.day

\* C5: PublishToRemote leaves the local files as they were, whatever its
\* outcome; it returns a URL only when the object is in the bucket, and
\* otherwise raises and leaves the bucket as it was.
C5_UploadLeavesLocalFiles ==
    [][ last'.op = "upload" =>
          /\ files' = files
          /\ last'.ret.kind \in {"str", "raise"}
          /\ last'.ret.kind = "str" =>
                LET key == UploadS3Key(last'.filename, last'.day)
                IN  /\ PathJoin(output_dir, last'.filename) \in DOMAIN files
                    /\ key \in DOMAIN remote'
                    /\ remote'[key] = files[PathJoin(output_dir, last'.filename)]
          /\ last'.ret.kind = "raise" => remote' = remote
      ]_vars

\* C5 witness: an upload of an existing local file has failed.
C5_Witness ==
    /\ last.op = "upload"
    /\ last.ret = Raise("ClientError")
    /\ LastPath \in DOMAIN files

\* C6: an object of the bucket stays in the bucket with its content through
\* every call; only a PublishToRemote to its key replaces it.
C6_DeleteKeepsRemote ==
    [][ /\ last'.op = "delete" => remote' = remote
        /\ \A k \in DOMAIN remote :
              /\ k \in DOMAIN remote'
              /\ remote'[k] /= remote[k] =>
                    /\ last'.op = "upload"
                    /\ UploadS3Key(last'.filename, last'.day) = k
      ]_vars

\* C6 witness: the local file of an uploaded artifact has been deleted.
C6_Witness ==
    /\ last.op = "delete"
    /\ last.ret.kind = "true"
    /\ \E d \in 1..today :
          /\ UploadS3Key(last.filename, d) \in DOMAIN remote
          /\ LastPath \notin DOMAIN files

\* C7: after a Persist that failed, no half-copied file lies at the target
\* path.
C7_NoPartialFileAfterFailure ==
    (last.op = "save" /\ last.ret.kind = "raise") =>
        (LastPath \in DOMAIN files => files[LastPath].whole)

\* Two successful uploads of the same local file, one right after the other.
Reupload ==
    /\ UploadedOk
    /\ last'.op = "upload"
    /\ last'.ret.kind = "str"
    /\ PathJoin(output_dir, last'.filename) = LastPath

\* C8 as stated: a repeated PublishToRemote of the same path writes the same
\* key and leaves the bucket as the first call left it.
C8_ReuploadSameKey ==
    [][ Reupload =>
          /\ UploadS3Key(last'.filename, last'.day) = UploadS3Key(last.filename, last.day)
          /\ remote' = remote
      ]_vars

\* C8 amended: a repeated PublishToRemote of the same path on the same
\* calendar day writes the same key and leaves the bucket as the first call
\* left it.
C8_ReuploadSameKeySameDay ==
    [][ (Reupload /\ last'.day = last.day) =>
          /\ UploadS3Key(last'.filename, last'.day) = UploadS3Key(last.filename, last.day)
          /\ remote' = remote
      ]_vars

\* C8 witness: an upload has overwritten the object of its key on the day
\* of the call.
C8_Witness == UploadedOk /\ last.existed /\ Cardinality(DOMAIN remote) = 1

\* C9: for the relative path, the path under the output root and the path
\* under another root, LocalServeURL is the base URL followed by
\* <date>/<base name>.<ext>.
C9_ServeUrlIsBasePlusDateAndName ==
    (last.op = "serve_url" /\ last.filename /= None) =>
        \E d \in 1..MaxDay, n \in Names, e \in Exts :
            /\ held = PathJoin(output_dir, RelPath(d, n, e))
            /\ last.filename \in
                  {RelPath(d, n, e), held, PathJoin(OtherRoot, RelPath(d, n, e))}
            /\ last.ret = RetStr(STATIC_SERVER_BASE \o RelPath(d, n, e))

\* C9 witness: the URL of a path under another root has been asked for.
C9_Witness ==
    /\ last.op = "serve_url"
    /\ held /= None
    /\ last.filename = PathJoin(OtherRoot, RelativeForm(held))

\* C10: for an existing local file ToBase64 returns a data URI whose type
\* is the extension when it is one of png, jpg, jpeg, webp, and png
\* otherwise.
C10_Base64AlwaysDataUri ==
    (last.op = "base64" /\ last.filename /= None /\ LastPath \in DOMAIN files) =>
        LET parts == Split(last.filename, ".")
            ext0  == parts[Len(parts)]
            ext   == IF Lower(ext0) \in KnownExts THEN ext0 ELSE png
            head  == DataImage \o ext \o Base64Mark
        IN  /\ last.ret.kind = "str"
            /\ Len(last.ret.val) > Len(head)
            /\ SubSeq(last.ret.val, 1, Len(head)) = head

====
